---- MODULE Spec2Model ----
(***************************************************************************)
(* Model of alembic/autogenerate.py: the schema differ                      *)
(* (_produce_net_changes and the element comparisons), the statement        *)
(* renderers with their dispatch table, and the top-level                   *)
(* produce_migration_diffs.                                                 *)
(*                                                                          *)
(* Python values are encoded as follows.  An optional value is a sequence   *)
(* of length 0 (None) or 1 (the value), so that None can be compared with   *)
(* any value.  A text is the sequence of its character codes, so that       *)
(* sorted() and string formatting act on it as they do in Python.  A diff   *)
(* entry is the tuple the code builds, tag first.  The iteration order of   *)
(* a Python set is not fixed by the language: every iteration over a set    *)
(* picks one of its enumerations.                                           *)
(***************************************************************************)
EXTENDS Integers, Sequences, FiniteSets, TLC

VARIABLES metadata, conn, diffs, prev, nruns, call, outcome, result, template_args

vars == <<metadata, conn, diffs, prev, nruns, call, outcome, result, template_args>>

\* largest length / precision / scale a type descriptor carries
MaxParam == 2
\* number of differ runs made over one pair of inputs
MaxRuns == 2

-----------------------------------------------------------------------------
(* Python values *)

None == <<>>
Some(x) == <<x>>
Val(o) == o[1]

\* the enumerations of a set: the orders a for loop over it can take
RECURSIVE Orders(_)
Orders(S) ==
    IF S = {} THEN {<<>>}
    ELSE UNION {{<<x>> \o o : o \in Orders(S \ {x})} : x \in S}

\* list.extend of each of a sequence of alternatives: every concatenation
RECURSIVE ConcatChoices(_)
ConcatChoices(ss) ==
    IF ss = <<>> THEN {<<>>}
    ELSE {h \o t : h \in ss[1], t \in ConcatChoices(Tail(ss))}

RECURSIVE Flatten(_)
Flatten(ss) == IF ss = <<>> THEN <<>> ELSE ss[1] \o Flatten(Tail(ss))

Range(s) == {s[i] : i \in DOMAIN s}

-----------------------------------------------------------------------------
(* Schema values *)

TableNames == {"t1", "t2"}
ColNames == {"c1", "c2"}

Params == {None} \cup {Some(n) : n \in 1..MaxParam}
Nullables == {None, Some(TRUE), Some(FALSE)}

StringType(l) == [affinity |-> "String", length |-> l, precision |-> None, scale |-> None]
NumericType(p, s) == [affinity |-> "Numeric", length |-> None, precision |-> p, scale |-> s]
IntegerType == [affinity |-> "Integer", length |-> None, precision |-> None, scale |-> None]

Types == {StringType(l) : l \in Params}
           \cup {NumericType(p, s) : p \in Params, s \in Params}
           \cup {IntegerType}

\* a reflected column record, as inspector.get_columns returns it
ConnCol(n, t, nl) == [name |-> n, type |-> t, nullable |-> nl]
\* a declared sqlalchemy Column
Column(n, t, nl, sd) == [name |-> n, type |-> t, nullable |-> nl, server_default |-> sd]
\* a declared sqlalchemy Table: ordered columns, a set of constraints
Table(n, cols, cons) == [name |-> n, c |-> cols, constraints |-> cons]

\* table.c[colname]
ColOf(table, cname) == CHOOSE col \in Range(table.c) : col.name = cname

-----------------------------------------------------------------------------
(* element comparison *)

\* the comparison without the test that the declared length is set
_string_compare_unset(t1, t2) ==
    t1.length # t2.length

_string_compare(t1, t2) ==
    t1.length # None /\ t1.length # t2.length

\* the comparison requiring both the precision and the scale to differ
_numeric_compare_both(t1, t2) ==
    /\ (t1.precision # None /\ t1.precision # t2.precision)
    /\ (t1.scale # None /\ t1.scale # t2.scale)

_numeric_compare(t1, t2) ==
    \/ (t1.precision # None /\ t1.precision # t2.precision)
    \/ (t1.scale # None /\ t1.scale # t2.scale)

\* _type_comparators.get(affinity, None), applied; a missing comparator is falsy
_type_comparators(affinity, t1, t2) ==
    CASE affinity = "String" -> _string_compare(t1, t2)
      [] affinity = "Numeric" -> _numeric_compare(t1, t2)
      [] OTHER -> FALSE

_compare_type_affinity(t, other) == t.affinity = other.affinity

_compare_type(tname, cname, conn_type, metadata_type) ==
    LET isdiff == IF _compare_type_affinity(conn_type, metadata_type)
                  THEN _type_comparators(conn_type.affinity, metadata_type, conn_type)
                  ELSE TRUE
    IN IF isdiff
       THEN << <<"upgrade_type", tname, cname, metadata_type>>,
               <<"downgrade_type", tname, cname, conn_type>> >>
       ELSE <<>>

\* the comparison by truth value, under which unset and False are the same
_compare_nullable_truth(tname, cname, conn_col_nullable, metadata_col_nullable) ==
    IF (conn_col_nullable = Some(TRUE)) # (metadata_col_nullable = Some(TRUE))
    THEN << <<"upgrade_nullable", tname, cname, metadata_col_nullable>>,
            <<"downgrade_nullable", tname, cname, conn_col_nullable>> >>
    ELSE <<>>

_compare_nullable(tname, cname, conn_col_nullable, metadata_col_nullable) ==
    IF conn_col_nullable # metadata_col_nullable
    THEN << <<"upgrade_nullable", tname, cname, metadata_col_nullable>>,
            <<"downgrade_nullable", tname, cname, conn_col_nullable>> >>
    ELSE <<>>

\* the diffs _compare_columns appends when its three set iterations take
\* the orders oadd, odrop and oboth
CompareColumnsIn(tname, conn_table, metadata_table, oadd, odrop, oboth) ==
    [i \in DOMAIN oadd |-> <<"upgrade_column", tname, ColOf(metadata_table, oadd[i])>>]
    \o [i \in DOMAIN odrop |-> <<"downgrade_column", tname, odrop[i]>>]
    \o Flatten([i \in DOMAIN oboth |->
            _compare_type(tname, oboth[i], conn_table[oboth[i]].type,
                          ColOf(metadata_table, oboth[i]).type)
            \o _compare_nullable(tname, oboth[i], conn_table[oboth[i]].nullable,
                                 ColOf(metadata_table, oboth[i]).nullable)])

\* every sequence of diffs one call of _compare_columns can append
_compare_columns(tname, conn_table, metadata_table) ==
    LET conn_col_names == DOMAIN conn_table
        metadata_col_names == {col.name : col \in Range(metadata_table.c)}
    IN {CompareColumnsIn(tname, conn_table, metadata_table, oadd, odrop, oboth) :
            oadd \in Orders(metadata_col_names \ conn_col_names),
            odrop \in Orders(conn_col_names \ metadata_col_names),
            oboth \in Orders(metadata_col_names \cap conn_col_names)}

-----------------------------------------------------------------------------
(* walk structures *)

\* every sequence of diffs one call of _produce_net_changes can append;
\* connection maps each reflected table name to its columns by name
_produce_net_changes(connection, md) ==
    LET conn_table_names == DOMAIN connection
        metadata_table_names == DOMAIN md
        existing_tables == conn_table_names \cap metadata_table_names
    IN UNION {
         {[i \in DOMAIN oadd |-> <<"upgrade_table", md[oadd[i]]>>]
            \o [i \in DOMAIN odrop |-> <<"downgrade_table", odrop[i]>>]
            \o cols :
              cols \in ConcatChoices([i \in DOMAIN oex |->
                          _compare_columns(oex[i], connection[oex[i]], md[oex[i]])])} :
           oadd \in Orders(metadata_table_names \ conn_table_names),
           odrop \in Orders(conn_table_names \ metadata_table_names),
           oex \in Orders(existing_tables)}

-----------------------------------------------------------------------------
(* texts: string literals of the renderers, as character codes *)

\* 'create_table('
fmt_create_table_head == <<99, 114, 101, 97, 116, 101, 95, 116, 97, 98, 108, 101, 40>>
\* ', \n        '
fmt_create_table_mid == <<44, 32, 10, 32, 32, 32, 32, 32, 32, 32, 32>>
\* '\n    )\n'
fmt_create_table_tail == <<10, 32, 32, 32, 32, 41, 10>>
\* ',\n'
sep_args == <<44, 10>>
\* ', '
sep_comma == <<44, 32>>
\* 'drop_table('
fmt_drop_table == <<100, 114, 111, 112, 95, 116, 97, 98, 108, 101, 40>>
\* 'drop_column('
fmt_drop_column == <<100, 114, 111, 112, 95, 99, 111, 108, 117, 109, 110, 40>>
\* 'alter_column('
fmt_alter_column == <<97, 108, 116, 101, 114, 95, 99, 111, 108, 117, 109, 110, 40>>
\* 'type='
fmt_type_kw == <<116, 121, 112, 101, 61>>
\* 'nullable='
fmt_nullable_kw == <<110, 117, 108, 108, 97, 98, 108, 101, 61>>
\* 'server_default='
fmt_server_default_kw == <<115, 101, 114, 118, 101, 114, 95, 100, 101, 102, 97, 117, 108, 116, 61>>
\* 'name='
fmt_name_kw == <<110, 97, 109, 101, 61>>
\* 'Column('
fmt_Column == <<67, 111, 108, 117, 109, 110, 40>>
\* 'PrimaryKeyConstraint('
fmt_PrimaryKeyConstraint == <<80, 114, 105, 109, 97, 114, 121, 75, 101, 121, 67, 111, 110, 115, 116, 114, 97, 105, 110, 116, 40>>
\* 'ForeignKeyConstraint(['
fmt_ForeignKeyConstraint == <<70, 111, 114, 101, 105, 103, 110, 75, 101, 121, 67, 111, 110, 115, 116, 114, 97, 105, 110, 116, 40, 91>>
\* '], ['
fmt_fk_mid == <<93, 44, 32, 91>>
\* '], '
fmt_fk_tail == <<93, 44, 32>>
\* "CheckConstraint('TODO')"
fmt_CheckConstraint == <<67, 104, 101, 99, 107, 67, 111, 110, 115, 116, 114, 97, 105, 110, 116, 40, 39, 84, 79, 68, 79, 39, 41>>
\* ')'
fmt_close == <<41>>
\* "'"
fmt_quote == <<39>>
\* 'None'
txt_None == <<78, 111, 110, 101>>
\* 'True'
txt_True == <<84, 114, 117, 101>>
\* 'False'
txt_False == <<70, 97, 108, 115, 101>>
\* 'String(length='
txt_String == <<83, 116, 114, 105, 110, 103, 40, 108, 101, 110, 103, 116, 104, 61>>
\* 'Numeric(precision='
txt_Numeric == <<78, 117, 109, 101, 114, 105, 99, 40, 112, 114, 101, 99, 105, 115, 105, 111, 110, 61>>
\* ', scale='
txt_scale == <<44, 32, 115, 99, 97, 108, 101, 61>>
\* 'Integer()'
txt_Integer == <<73, 110, 116, 101, 103, 101, 114, 40, 41>>

\* the characters of the names and expressions the schemas use
StrText(s) ==
    CASE s = "t1" -> <<116, 49>>
      [] s = "t2" -> <<116, 50>>
      [] s = "c1" -> <<99, 49>>
      [] s = "c2" -> <<99, 50>>
      [] s = "pk" -> <<112, 107>>
      [] s = "fk" -> <<102, 107>>
      [] s = "t2.c1" -> <<116, 50, 46, 99, 49>>
      [] s = "t2.c2" -> <<116, 50, 46, 99, 50>>
      [] s = "0" -> <<48>>

RECURSIVE DecText(_)
\* str() / repr() of a non-negative int
DecText(n) == IF n < 10 THEN <<48 + n>> ELSE DecText(n \div 10) \o <<48 + (n % 10)>>

\* repr() of a str
ReprStr(s) == fmt_quote \o StrText(s) \o fmt_quote

\* repr() / str() of None, True, False
ReprNullable(nl) ==
    IF nl = None THEN txt_None ELSE IF Val(nl) THEN txt_True ELSE txt_False

\* repr() of an optional int
ReprParam(p) == IF p = None THEN txt_None ELSE DecText(Val(p))

\* repr() of a type descriptor: class name and constructor arguments
ReprType(t) ==
    CASE t.affinity = "String" -> txt_String \o ReprParam(t.length) \o fmt_close
      [] t.affinity = "Numeric" ->
            txt_Numeric \o ReprParam(t.precision) \o txt_scale \o ReprParam(t.scale) \o fmt_close
      [] OTHER -> txt_Integer

RECURSIVE Join(_, _)
\* sep.join(texts)
Join(sep, texts) ==
    IF texts = <<>> THEN <<>>
    ELSE IF Len(texts) = 1 THEN texts[1]
    ELSE texts[1] \o sep \o Join(sep, Tail(texts))

RECURSIVE LexLess(_, _)
\* a < b on Python strings: code point order, a proper prefix first
LexLess(a, b) ==
    IF b = <<>> THEN FALSE
    ELSE IF a = <<>> THEN TRUE
    ELSE IF a[1] # b[1] THEN a[1] < b[1]
    ELSE LexLess(Tail(a), Tail(b))

RECURSIVE Insert(_, _)
Insert(x, s) ==
    IF s = <<>> THEN <<x>>
    ELSE IF LexLess(x, s[1]) THEN <<x>> \o s
    ELSE <<s[1]>> \o Insert(x, Tail(s))

RECURSIVE sorted(_)
\* sorted(list of str)
sorted(s) == IF s = <<>> THEN <<>> ELSE Insert(s[Len(s)], sorted(SubSeq(s, 1, Len(s) - 1)))

SelectTexts(s) == SelectSeq(s, LAMBDA r : r # None)

-----------------------------------------------------------------------------
(* render python *)

\* a constraint of a declared table; kind is its class
Constraint(k, n, cols, els) == [kind |-> k, name |-> n, columns |-> cols, elements |-> els]

_render_col(column) ==
    LET opts == (IF column.server_default # None
                 THEN <<fmt_server_default_kw \o StrText(Val(column.server_default))>>
                 ELSE <<>>)
                \o (IF column.nullable # None
                    THEN <<fmt_nullable_kw \o ReprNullable(column.nullable)>>
                    ELSE <<>>)
    IN fmt_Column \o ReprStr(column.name) \o sep_comma \o ReprType(column.type)
         \o sep_comma \o Join(sep_comma, opts) \o fmt_close

_render_primary_key(constraint) ==
    LET opts == IF constraint.name # None
                THEN <<fmt_name_kw \o StrText(Val(constraint.name))>> ELSE <<>>
    IN fmt_PrimaryKeyConstraint
         \o Join(sep_comma, [i \in DOMAIN constraint.columns |-> StrText(constraint.columns[i])]
                            \o opts)
         \o fmt_close

_render_foreign_key(constraint) ==
    LET opts == IF constraint.name # None
                THEN <<fmt_name_kw \o StrText(Val(constraint.name))>> ELSE <<>>
    IN fmt_ForeignKeyConstraint
         \o Join(sep_comma, [i \in DOMAIN constraint.elements |->
                                StrText(constraint.elements[i].parent)])
         \o fmt_fk_mid
         \o Join(sep_comma, [i \in DOMAIN constraint.elements |->
                                ReprStr(constraint.elements[i].colspec)])
         \o fmt_fk_tail \o Join(sep_comma, opts) \o fmt_close

_render_check_constraint(constraint) == fmt_CheckConstraint

\* _constraint_renderers.get(type(constraint), None), applied: an optional text
_render_constraint(constraint) ==
    CASE constraint.kind = "PrimaryKeyConstraint" -> Some(_render_primary_key(constraint))
      [] constraint.kind = "ForeignKeyConstraint" -> Some(_render_foreign_key(constraint))
      [] constraint.kind = "CheckConstraint" -> Some(_render_check_constraint(constraint))
      [] OTHER -> None

\* the text of _upgrade_table when table.constraints is iterated in order cons
UpgradeTableIn(table, cons) ==
    LET rendered == SelectTexts([i \in DOMAIN cons |-> _render_constraint(cons[i])])
        args == [i \in DOMAIN table.c |-> _render_col(table.c[i])]
                  \o sorted([i \in DOMAIN rendered |-> Val(rendered[i])])
    IN fmt_create_table_head \o ReprStr(table.name) \o fmt_create_table_mid
         \o Join(sep_args, args) \o fmt_create_table_tail

\* the outcome of a call: the returned value, or the exception raised
Return(v) == [status |-> "ok", value |-> v]
Raise(e) == [status |-> e, value |-> None]

_upgrade_table(table) ==
    {Return(Some(UpgradeTableIn(table, cons))) : cons \in Orders(table.constraints)}

_downgrade_table(tname) ==
    {Return(Some(fmt_drop_table \o ReprStr(tname) \o fmt_close))}

\* the name _render_column is bound nowhere in the module
_upgrade_column(tname, column) == {Raise("NameError")}

_downgrade_column(tname, cname) ==
    {Return(Some(fmt_drop_column \o ReprStr(tname) \o sep_comma \o ReprStr(cname) \o fmt_close))}

_up_or_downgrade_type(tname, cname, type_) ==
    {Return(Some(fmt_alter_column \o ReprStr(tname) \o sep_comma \o ReprStr(cname)
                   \o sep_comma \o fmt_type_kw \o ReprType(type_) \o fmt_close))}

_up_or_downgrade_nullable(tname, cname, nullable) ==
    {Return(Some(fmt_alter_column \o ReprStr(tname) \o sep_comma \o ReprStr(cname)
                   \o sep_comma \o fmt_nullable_kw \o ReprNullable(nullable) \o fmt_close))}

\* the keys of the dispatch table
CommandKeys ==
    {"upgrade_table", "downgrade_table", "upgrade_column", "downgrade_column",
     "upgrade_type", "downgrde_type", "upgrade_nullable", "downgrade_nullable"}

\* _commands[diff[0]](*diff[1:]): the outcomes of rendering one diff entry
_commands(diff) ==
    CASE diff[1] \notin CommandKeys -> {Raise("KeyError")}
      [] diff[1] = "upgrade_table" -> _upgrade_table(diff[2])
      [] diff[1] = "downgrade_table" -> _downgrade_table(diff[2])
      [] diff[1] = "upgrade_column" -> _upgrade_column(diff[2], diff[3])
      [] diff[1] = "downgrade_column" -> _downgrade_column(diff[2], diff[3])
      [] diff[1] \in {"upgrade_type", "downgrde_type"} ->
            _up_or_downgrade_type(diff[2], diff[3], diff[4])
      [] diff[1] \in {"upgrade_nullable", "downgrade_nullable"} ->
            _up_or_downgrade_nullable(diff[2], diff[3], diff[4])

-----------------------------------------------------------------------------
(* inputs *)

\* the declared order of the columns of a table
ColOrder == <<"c1", "c2">>

\* reflected tables: each column of a subset of ColNames, String(1), nullable
ConnTables ==
    {[cn \in cs |-> ConnCol(cn, StringType(Some(1)), Some(TRUE))] : cs \in SUBSET ColNames}

\* reflected schemas over subsets of TableNames
Snapshots == UNION {[ts -> ConnTables] : ts \in SUBSET TableNames}

\* the column descriptors declared tables choose from
ModelCols(cn) ==
    {Column(cn, StringType(Some(1)), Some(TRUE), None),
     Column(cn, StringType(Some(2)), Some(FALSE), None)}

\* column lists in declared order over the column names cs
ColLists(cs) ==
    LET names == SelectSeq(ColOrder, LAMBDA cn : cn \in cs)
    IN {cols \in [DOMAIN names -> UNION {ModelCols(cn) : cn \in cs}] :
            \A i \in DOMAIN names : cols[i].name = names[i]}

\* declared schemas over subsets of TableNames, without constraints
Models ==
    UNION {{md \in [ts -> UNION {{Table(tn, cols, {}) : cols \in ColLists(cs)} :
                                    tn \in ts, cs \in SUBSET ColNames}] :
               \A tn \in ts : md[tn].name = tn} : ts \in SUBSET TableNames}

\* largest number of constraints of a declared table
MaxCons == 3

ConstraintPool ==
    {Constraint("PrimaryKeyConstraint", None, <<"c1">>, <<>>),
     Constraint("PrimaryKeyConstraint", Some("pk"), <<"c1", "c2">>, <<>>),
     Constraint("ForeignKeyConstraint", Some("fk"), <<>>,
                <<[parent |-> "c1", colspec |-> "t2.c1"]>>),
     Constraint("ForeignKeyConstraint", None, <<>>,
                <<[parent |-> "c2", colspec |-> "t2.c2"], [parent |-> "c1", colspec |-> "t2.c1"]>>),
     Constraint("CheckConstraint", None, <<>>, <<>>),
     Constraint("CheckConstraint", Some("pk"), <<>>, <<>>),
     Constraint("UniqueConstraint", None, <<"c2">>, <<>>)}

RenderCols ==
    LET a == Column("c1", IntegerType, Some(FALSE), None)
        b == Column("c2", StringType(Some(1)), None, Some("0"))
    IN {<<a>>, <<a, b>>, <<b, a>>}

\* one declared table with constraints, absent from the database
RenderModels ==
    {[tn \in {"t1"} |-> Table("t1", cols, cons)] :
        cols \in RenderCols,
        cons \in {cs \in SUBSET ConstraintPool : Cardinality(cs) <= MaxCons}}

\* one table with one column on both sides, over every type and nullability
ColumnSnapshots ==
    {[tn \in {"t1"} |-> [cn \in {"c1"} |-> ConnCol("c1", ty, nl)]] :
        ty \in Types, nl \in Nullables}

ColumnModels ==
    {[tn \in {"t1"} |-> Table("t1", <<Column("c1", ty, nl, None)>>, {})] :
        ty \in Types, nl \in Nullables}

\* the keys of template_args the two script bodies are stored under
upgrade_token == "upgrades"
downgrade_token == "downgrades"

-----------------------------------------------------------------------------
(* state *)

Init ==
    /\ \/ /\ conn \in {None} \cup {Some(s) : s \in Snapshots}
          /\ metadata \in {None} \cup {Some(m) : m \in Models}
       \/ /\ conn \in {Some(s) : s \in ColumnSnapshots}
          /\ metadata \in {Some(m) : m \in ColumnModels}
       \/ /\ conn = Some(<<>>)
          /\ metadata \in {Some(m) : m \in RenderModels}
    /\ diffs = <<>>
    /\ prev = <<>>
    /\ nruns = 0
    /\ call = "none"
    /\ outcome = "ok"
    /\ result = None
    /\ template_args = <<>>

\* template_args[key] = text
SetItem(d, key, text) == [k \in DOMAIN d \cup {key} |-> IF k = key THEN text ELSE d[k]]

\* produce_migration_diffs(template_args): the metadata check raises
\* CommandError; past it, the call of get_bind, a name the module neither
\* defines nor imports, raises NameError before anything else runs
ProduceMigrationDiffs ==
    /\ call' = "produce_migration_diffs"
    /\ outcome' = IF metadata = None THEN "CommandError" ELSE "NameError"
    /\ result' = None
    /\ UNCHANGED <<metadata, conn, diffs, prev, nruns, template_args>>

\* diffs = []; _produce_net_changes(connection, metadata, diffs)
ProduceNetChanges ==
    /\ metadata # None
    /\ conn # None
    /\ nruns < MaxRuns
    /\ \E new \in _produce_net_changes(Val(conn), Val(metadata)) :
          /\ diffs' = new
          /\ prev' = diffs
    /\ nruns' = nruns + 1
    /\ call' = "_produce_net_changes"
    /\ outcome' = "ok"
    /\ result' = None
    /\ UNCHANGED <<metadata, conn, template_args>>

\* the loop of _produce_upgrade_commands and _produce_downgrade_commands:
\* diff is a tuple, so diff.startswith raises on the first entry; with no
\* entry the function falls off its end and returns None
ProduceCommands(name) ==
    /\ call' = name
    /\ outcome' = IF diffs = <<>> THEN "ok" ELSE "AttributeError"
    /\ result' = None
    /\ UNCHANGED <<metadata, conn, diffs, prev, nruns, template_args>>

ProduceUpgradeCommands == ProduceCommands("_produce_upgrade_commands")

ProduceDowngradeCommands == ProduceCommands("_produce_downgrade_commands")

\* _set_upgrade(template_args, _produce_upgrade_commands(diffs))
SetUpgrade ==
    /\ call = "_produce_upgrade_commands"
    /\ outcome = "ok"
    /\ template_args' = SetItem(template_args, upgrade_token, result)
    /\ call' = "_set_upgrade"
    /\ UNCHANGED <<metadata, conn, diffs, prev, nruns, outcome, result>>

\* _set_downgrade(template_args, _produce_downgrade_commands(diffs))
SetDowngrade ==
    /\ call = "_produce_downgrade_commands"
    /\ outcome = "ok"
    /\ template_args' = SetItem(template_args, downgrade_token, result)
    /\ call' = "_set_downgrade"
    /\ UNCHANGED <<metadata, conn, diffs, prev, nruns, outcome, result>>

\* cmd = _commands[diff[0]]; cmd(*diff[1:]) for one entry of diffs
RenderDiff ==
    /\ \E i \in DOMAIN diffs : \E r \in _commands(diffs[i]) :
          /\ outcome' = r.status
          /\ result' = r.value
    /\ call' = "_commands"
    /\ UNCHANGED <<metadata, conn, diffs, prev, nruns, template_args>>

Next ==
    \/ ProduceMigrationDiffs
    \/ ProduceNetChanges
    \/ ProduceUpgradeCommands
    \/ ProduceDowngradeCommands
    \/ SetUpgrade
    \/ SetDowngrade
    \/ RenderDiff

Spec == Init /\ [][Next]_vars

-----------------------------------------------------------------------------
(* reading a diff entry as a Change: its direction is the prefix the two   *)
(* command producers select on, its kind the statement its renderer writes *)

ForwardTags == {"upgrade_table", "upgrade_column", "upgrade_type", "upgrade_nullable"}

IsForward(d) == d[1] \in ForwardTags

Kind(d) ==
    CASE d[1] = "upgrade_table" -> "add-table"
      [] d[1] = "downgrade_table" -> "drop-table"
      [] d[1] = "upgrade_column" -> "add-column"
      [] d[1] = "downgrade_column" -> "drop-column"
      [] d[1] \in {"upgrade_type", "downgrade_type"} -> "alter-type"
      [] d[1] \in {"upgrade_nullable", "downgrade_nullable"} -> "alter-nullable"

IsTableLevel(d) == Kind(d) \in {"add-table", "drop-table"}

\* the table a Change is about
TableOf(d) == IF d[1] = "upgrade_table" THEN d[2].name ELSE d[2]

\* the column a column-level Change is about
ColumnOf(d) == IF d[1] = "upgrade_column" THEN d[3].name ELSE d[3]

\* the number of entries of ds that equal e
Count(ds, e) == Cardinality({i \in DOMAIN ds : ds[i] = e})

\* the number of Changes of ds of one kind and direction about (t, c)
CountKind(ds, kind, forward, t, c) ==
    Cardinality({i \in DOMAIN ds :
        /\ Kind(ds[i]) = kind
        /\ IsForward(ds[i]) = forward
        /\ TableOf(ds[i]) = t
        /\ ColumnOf(ds[i]) = c})

Ran == call = "_produce_net_changes"

Live == Val(conn)
Model == Val(metadata)
BothTables == IF conn = None \/ metadata = None THEN {} ELSE DOMAIN Live \cap DOMAIN Model
ModelColNames(t) == {col.name : col \in Range(Model[t].c)}
BothCols(t) == DOMAIN Live[t] \cap ModelColNames(t)

\* "materially different", as the specification words it
TypesDiffer(liveType, modelType) ==
    \/ liveType.affinity # modelType.affinity
    \/ /\ liveType.affinity = "String"
       /\ modelType.affinity = "String"
       /\ modelType.length # None
       /\ modelType.length # liveType.length
    \/ /\ liveType.affinity = "Numeric"
       /\ modelType.affinity = "Numeric"
       /\ \/ modelType.precision # None /\ modelType.precision # liveType.precision
          \/ modelType.scale # None /\ modelType.scale # liveType.scale

-----------------------------------------------------------------------------
(* C1 *)

\* C1: after a diff run every Change has exactly one counterpart in the
\* opposite direction: a model-only table has one forward add-table and one
\* reverse drop-table of its name, a model-only column one forward
\* add-column and one reverse drop-column, an alter one forward entry with
\* the new value and one reverse entry with the old value.
C1_Counterparts ==
    Ran =>
      /\ \A t \in DOMAIN Model \ DOMAIN Live :
            /\ Count(diffs, <<"upgrade_table", Model[t]>>) = 1
            /\ Cardinality({i \in DOMAIN diffs :
                   /\ Kind(diffs[i]) = "drop-table"
                   /\ ~IsForward(diffs[i])
                   /\ TableOf(diffs[i]) = t}) = 1
      /\ \A t \in BothTables : \A c \in ModelColNames(t) \ DOMAIN Live[t] :
            /\ CountKind(diffs, "add-column", TRUE, t, c) = 1
            /\ CountKind(diffs, "drop-column", FALSE, t, c) = 1
      /\ \A t \in BothTables : \A c \in BothCols(t) :
            /\ CountKind(diffs, "alter-type", TRUE, t, c)
                 = CountKind(diffs, "alter-type", FALSE, t, c)
            /\ CountKind(diffs, "alter-type", TRUE, t, c)
                 = Count(diffs, <<"upgrade_type", t, c, ColOf(Model[t], c).type>>)
            /\ CountKind(diffs, "alter-type", FALSE, t, c)
                 = Count(diffs, <<"downgrade_type", t, c, Live[t][c].type>>)
            /\ CountKind(diffs, "alter-nullable", TRUE, t, c)
                 = CountKind(diffs, "alter-nullable", FALSE, t, c)

-----------------------------------------------------------------------------
(* C2 *)

\* the two schemas have the same tables and columns, no column type is
\* materially different and every nullability is the same
InputsMatch ==
    /\ conn # None
    /\ metadata # None
    /\ DOMAIN Live = DOMAIN Model
    /\ \A t \in DOMAIN Model :
          /\ DOMAIN Live[t] = ModelColNames(t)
          /\ \A c \in ModelColNames(t) :
                /\ ~TypesDiffer(Live[t][c].type, ColOf(Model[t], c).type)
                /\ Live[t][c].nullable = ColOf(Model[t], c).nullable

\* C2: a diff run over matching schemas yields an empty Change sequence.
C2_NoOpDiff == (Ran /\ InputsMatch) => diffs = <<>>

\* a run over matching schemas in which a column's declared type is not the
\* reflected one (its length is left unset)
C2_Witness ==
    /\ Ran
    /\ InputsMatch
    /\ \E t \in DOMAIN Model : \E c \in ModelColNames(t) :
          Live[t][c].type # ColOf(Model[t], c).type
    /\ diffs = <<>>

-----------------------------------------------------------------------------
(* C3 *)

\* C3: for a column of the snapshot that the model of the same table lacks,
\* the run yields a forward drop-column and a reverse add-column of that
\* (table, column), the reverse one carrying the reflected column.
C3_DroppedColumn ==
    Ran =>
      \A t \in BothTables : \A c \in DOMAIN Live[t] \ ModelColNames(t) :
          /\ CountKind(diffs, "drop-column", TRUE, t, c) >= 1
          /\ \E i \in DOMAIN diffs :
                /\ Kind(diffs[i]) = "add-column"
                /\ ~IsForward(diffs[i])
                /\ TableOf(diffs[i]) = t
                /\ diffs[i][3].name = c
                /\ diffs[i][3].type = Live[t][c].type
                /\ diffs[i][3].nullable = Live[t][c].nullable

-----------------------------------------------------------------------------
(* C4 *)

\* the separator of the statements of a script body
Separator == <<10>>

\* the entries of ds of one direction, in their order
Partition(ds, forward) == SelectSeq(ds, LAMBDA d : IsForward(d) = forward)

\* some rendering of every entry of ds, joined into one body: the bodies
\* the entries of ds can be rendered to
Bodies(ds) ==
    {Join(Separator, [i \in DOMAIN ds |-> Val(rs[i].value)]) :
        rs \in {f \in [DOMAIN ds -> UNION {_commands(ds[i]) : i \in DOMAIN ds}] :
                   \A i \in DOMAIN ds : f[i] \in _commands(ds[i]) /\ f[i].status = "ok"}}

\* C4: a run of produce_migration_diffs over a snapshot and a model stores
\* under the upgrade key the joined texts of the forward Changes of a diff
\* run, in emission order, and under the downgrade key those of the reverse
\* Changes; and after a diff run each command producer returns the body of
\* its partition.
C4_ScriptBodies ==
    /\ (call = "produce_migration_diffs" /\ metadata # None /\ conn # None) =>
          /\ outcome = "ok"
          /\ upgrade_token \in DOMAIN template_args
          /\ downgrade_token \in DOMAIN template_args
          /\ \E ds \in _produce_net_changes(Live, Model) :
                /\ template_args[upgrade_token] \in {Some(b) : b \in Bodies(Partition(ds, TRUE))}
                /\ template_args[downgrade_token] \in {Some(b) : b \in Bodies(Partition(ds, FALSE))}
    /\ (call = "_produce_upgrade_commands" /\ nruns >= 1) =>
          /\ outcome = "ok"
          /\ result \in {Some(b) : b \in Bodies(Partition(diffs, TRUE))}
    /\ (call = "_produce_downgrade_commands" /\ nruns >= 1) =>
          /\ outcome = "ok"
          /\ result \in {Some(b) : b \in Bodies(Partition(diffs, FALSE))}

-----------------------------------------------------------------------------
(* C5 *)

\* C5: a run of produce_migration_diffs with the snapshot or the model
\* unset fails with the configuration error, produces no Change, renders
\* nothing and writes neither key of template_args.
C5_ConfigurationError ==
    [][(ProduceMigrationDiffs /\ (metadata = None \/ conn = None)) =>
          /\ outcome' = "CommandError"
          /\ diffs' = diffs
          /\ result' = None
          /\ template_args' = template_args]_vars

-----------------------------------------------------------------------------
(* C6 *)

\* the rendered statements of one direction of ds, in order, each with
\* every outcome its rendering can have
Rendered(ds, forward) ==
    [i \in DOMAIN Partition(ds, forward) |-> _commands(Partition(ds, forward)[i])]

Ascending(texts) ==
    \A i, j \in DOMAIN texts : i < j => ~LexLess(texts[j], texts[i])

\* C6: two diff runs over the same inputs render the same forward and
\* reverse output whatever order the sets are iterated in, and a
\* create-table statement lists the columns in declared order, then the
\* rendered constraints in ascending order, the unclassifiable ones left out.
C6_Determinism ==
    /\ nruns >= 2 =>
          /\ Rendered(prev, TRUE) = Rendered(diffs, TRUE)
          /\ Rendered(prev, FALSE) = Rendered(diffs, FALSE)
    /\ \A i \in DOMAIN diffs :
          /\ Cardinality(_commands(diffs[i])) = 1
          /\ diffs[i][1] = "upgrade_table" =>
                LET table == diffs[i][2]
                    classifiable == {k \in table.constraints : _render_constraint(k) # None}
                IN \E cons \in Orders(classifiable) :
                      LET texts == [j \in DOMAIN cons |-> Val(_render_constraint(cons[j]))]
                      IN /\ Ascending(texts)
                         /\ _commands(diffs[i]) =
                              {Return(Some(fmt_create_table_head \o ReprStr(table.name)
                                  \o fmt_create_table_mid
                                  \o Join(sep_args,
                                          [j \in DOMAIN table.c |-> _render_col(table.c[j])]
                                          \o texts)
                                  \o fmt_create_table_tail))}

-----------------------------------------------------------------------------
(* C7 *)

NameLeq(a, b) == ~LexLess(StrText(b), StrText(a))

\* the place of a column-level Change within its table
Rank(d) ==
    CASE Kind(d) = "add-column" -> 1
      [] Kind(d) = "drop-column" -> 2
      [] Kind(d) = "alter-type" -> 3
      [] Kind(d) = "alter-nullable" -> 4
      [] OTHER -> 0

\* C7: in the emitted sequence the table-level Changes come first, in name
\* order; the column-level Changes follow grouped by table in name order,
\* and within a table the adds precede the drops, which precede the
\* type-alters, which precede the nullable-alters.
C7_EmissionOrder ==
    \A i, j \in DOMAIN diffs : i < j =>
        /\ IsTableLevel(diffs[j]) => IsTableLevel(diffs[i])
        /\ (IsTableLevel(diffs[i]) /\ IsTableLevel(diffs[j])) =>
              NameLeq(TableOf(diffs[i]), TableOf(diffs[j]))
        /\ (~IsTableLevel(diffs[i]) /\ ~IsTableLevel(diffs[j])) =>
              /\ NameLeq(TableOf(diffs[i]), TableOf(diffs[j]))
              /\ TableOf(diffs[i]) = TableOf(diffs[j]) => Rank(diffs[i]) <= Rank(diffs[j])

-----------------------------------------------------------------------------
(* C8 *)

\* C8: rendering any emitted Change finds its renderer and returns a text,
\* and a reverse alter-type renders as alter_column(table, column,
\* type=<old type>).
C8_EveryKindRenders ==
    call = "_commands" =>
      /\ outcome = "ok"
      /\ result # None
      /\ \A i \in DOMAIN diffs : \A r \in _commands(diffs[i]) :
            /\ r.status = "ok"
            /\ diffs[i][1] = "downgrade_type" =>
                  r.value = Some(fmt_alter_column \o ReprStr(diffs[i][2]) \o sep_comma
                                   \o ReprStr(diffs[i][3]) \o sep_comma \o fmt_type_kw
                                   \o ReprType(diffs[i][4]) \o fmt_close)

-----------------------------------------------------------------------------
(* C9 *)

\* C9: for a column of both schemas a diff run emits the alter-type pair,
\* once, with the declared type forward and the reflected type in reverse,
\* exactly when the types are materially different: the affinities differ,
\* or both are strings and the declared length is set and differs, or both
\* are numerics and the declared precision or the declared scale is set and
\* differs.
C9_TypesDiffer ==
    Ran =>
      \A t \in BothTables : \A c \in BothCols(t) :
          LET n == IF TypesDiffer(Live[t][c].type, ColOf(Model[t], c).type) THEN 1 ELSE 0
          IN /\ Count(diffs, <<"upgrade_type", t, c, ColOf(Model[t], c).type>>) = n
             /\ Count(diffs, <<"downgrade_type", t, c, Live[t][c].type>>) = n
             /\ CountKind(diffs, "alter-type", TRUE, t, c) = n
             /\ CountKind(diffs, "alter-type", FALSE, t, c) = n

\* a run over two numerics of the same precision whose declared scale is
\* set and is not the reflected one: the pair is emitted
C9_Witness ==
    /\ Ran
    /\ \E t \in BothTables : \E c \in BothCols(t) :
          LET lt == Live[t][c].type
              mt == ColOf(Model[t], c).type
          IN /\ lt.affinity = "Numeric"
             /\ mt.affinity = "Numeric"
             /\ mt.precision = lt.precision
             /\ mt.scale # None
             /\ lt.scale # None
             /\ mt.scale # lt.scale
             /\ Count(diffs, <<"upgrade_type", t, c, mt>>) = 1
             /\ Count(diffs, <<"downgrade_type", t, c, lt>>) = 1

-----------------------------------------------------------------------------
(* C10 *)

\* C10: for a column of both schemas a diff run emits the alter-nullable
\* pair, once, with the declared nullability forward and the reflected one
\* in reverse, exactly when the two are not the same value among unset,
\* true and false.
C10_NullableIdentity ==
    Ran =>
      \A t \in BothTables : \A c \in BothCols(t) :
          LET n == IF Live[t][c].nullable = ColOf(Model[t], c).nullable THEN 0 ELSE 1
          IN /\ Count(diffs, <<"upgrade_nullable", t, c, ColOf(Model[t], c).nullable>>) = n
             /\ Count(diffs, <<"downgrade_nullable", t, c, Live[t][c].nullable>>) = n
             /\ CountKind(diffs, "alter-nullable", TRUE, t, c) = n
             /\ CountKind(diffs, "alter-nullable", FALSE, t, c) = n

\* a run over a column of unset reflected nullability declared not
\* nullable: the pair is emitted
C10_Witness ==
    /\ Ran
    /\ \E t \in BothTables : \E c \in BothCols(t) :
          /\ Live[t][c].nullable = None
          /\ ColOf(Model[t], c).nullable = Some(FALSE)
          /\ Count(diffs, <<"upgrade_nullable", t, c, Some(FALSE)>>) = 1
          /\ Count(diffs, <<"downgrade_nullable", t, c, None>>) = 1

====
